---- MODULE Spec2Model ----
(***************************************************************************)
(* LogicLens: the inference service (chatCompletion, tryVisionSolve,       *)
(* textOnlySolve, solveFromImage, solveFromText, parseResponse), the       *)
(* /solve, /solve-text and /health routes, the static-file, request-timeout *)
(* and 404 middleware and the global error handler of the server, the      *)
(* process-level handlers (signals, uncaught exceptions, shutdown), and    *)
(* the browser UI (views, startAnalysis and its status animation, history  *)
(* in localStorage).                                                       *)
(*                                                                         *)
(* A JavaScript string is a sequence of tokens.  A token is one character  *)
(* ("{", "}", "\n", " ", "x") or one JSON member written out in full, such *)
(* as  "answer":"a"  (with the comma that separates it from its            *)
(* neighbour); Width gives the number of characters a token stands for.    *)
(***************************************************************************)
EXTENDS Integers, Sequences, FiniteSets, TLC

\* ------------------------------------------------------------------ bounds
\* Longest run of filler characters before and after an embedded object.
MaxPad == 1
\* Longest text without an embedded object.
MaxPlainLen == 4
\* calls of startAnalysis in one page visit
MaxStarts == 2
\* callbacks of the status interval that run during one call of startAnalysis
MaxTicks == 1
\* connections open at once
MaxConnections == 2
\* signals, uncaught exceptions and unhandled rejections in one run
MaxEvents == 2

\* ------------------------------------------------------------------ tokens
NL == "\n"
Whitespace == {" ", NL}
FillerTokens == {"{", "}", NL, " ", "x"}
MemberTokens ==
    {"previewText:p", "previewText:''", "answer:a", "answer:''",
     "steps:[s1,s2]", "steps:'s'", "explanation:e", "explanation:''"}
Keys == {"previewText", "answer", "steps", "explanation"}

\* Characters a token stands for, e.g. "answer":"a" is 12 characters.
Width(tok) ==
    CASE tok = "previewText:p"  -> 17
      [] tok = "previewText:''" -> 16
      [] tok = "answer:a"       -> 12
      [] tok = "answer:''"      -> 11
      [] tok = "steps:[s1,s2]"  -> 19
      [] tok = "steps:'s'"      -> 11
      [] tok = "explanation:e"  -> 17
      [] tok = "explanation:''" -> 16
      [] tok = "200 characters" -> 200
      [] OTHER                  -> 1

RECURSIVE CharLen(_)
\* String.prototype.length
CharLen(s) == IF s = <<>> THEN 0 ELSE Width(Head(s)) + CharLen(Tail(s))

\* ------------------------------------------------------------ JS values
Undefined == [type |-> "undefined", str |-> <<>>, arr |-> <<>>]
JsString(s) == [type |-> "string", str |-> s, arr |-> <<>>]
JsArray(a) == [type |-> "array", str |-> <<>>, arr |-> a]

JsNumber == [type |-> "number", str |-> <<>>, arr |-> <<>>]   \* a non-zero number

\* the member is there at all
Present(v) == v.type # "undefined"

\* ToBoolean: undefined and the empty string are falsy; arrays and non-zero
\* numbers are truthy.
Truthy(v) == (v.type \in {"array", "number"}) \/ (v.type = "string" /\ v.str # <<>>)

\* a || b
Or(a, b) == IF Truthy(a) THEN a ELSE b

MemberKey(tok) ==
    CASE tok \in {"previewText:p", "previewText:''"} -> "previewText"
      [] tok \in {"answer:a", "answer:''"}           -> "answer"
      [] tok \in {"steps:[s1,s2]", "steps:'s'"}      -> "steps"
      [] OTHER                                       -> "explanation"

MemberValue(tok) ==
    CASE tok = "previewText:p"  -> JsString(<<"p">>)
      [] tok = "answer:a"       -> JsString(<<"a">>)
      [] tok = "steps:[s1,s2]"  -> JsArray(<< <<"s1">>, <<"s2">> >>)
      [] tok = "steps:'s'"      -> JsString(<<"s">>)
      [] tok = "explanation:e"  -> JsString(<<"e">>)
      [] OTHER                  -> JsString(<<>>)

\* ------------------------------------------------------- string helpers
FirstIndex(s, tok) ==
    IF \E i \in 1..Len(s) : s[i] = tok
    THEN CHOOSE i \in 1..Len(s) : s[i] = tok /\ \A j \in 1..(i - 1) : s[j] # tok
    ELSE 0

LastIndex(s, tok) ==
    IF \E i \in 1..Len(s) : s[i] = tok
    THEN CHOOSE i \in 1..Len(s) : s[i] = tok /\ \A j \in (i + 1)..Len(s) : s[j] # tok
    ELSE 0

RECURSIVE Split(_)
\* text.split('\n'): always at least one piece
Split(s) ==
    LET i == FirstIndex(s, NL)
    IN  IF i = 0 THEN <<s>>
        ELSE <<SubSeq(s, 1, i - 1)>> \o Split(SubSeq(s, i + 1, Len(s)))

\* l.trim().length > 0
TrimNonEmpty(l) == \E k \in 1..Len(l) : l[k] \notin Whitespace

\* the predicate of the filter in fallback.steps
KeepLineNoTrim(l) == Len(l) > 0
KeepLine(l) == TrimNonEmpty(l)

\* text.match(/\{[\s\S]*\}/): greedy, from the first "{" to the last "}".
\* <<>> stands for "no match" (a match has at least two characters).
RegexMatch(text) ==
    LET i == FirstIndex(text, "{")
        j == LastIndex(text, "}")
    IN  IF i > 0 /\ j > i THEN SubSeq(text, i, j) ELSE <<>>

\* JSON.parse of a string that starts with "{": an object, or a SyntaxError.
JSONparse(m) ==
    LET n == Len(m)
        valid == /\ n >= 2
                 /\ m[1] = "{"
                 /\ m[n] = "}"
                 /\ \A k \in 2..(n - 1) : m[k] \in MemberTokens \cup Whitespace
        at(key) == {k \in 2..(n - 1) : m[k] \in MemberTokens /\ MemberKey(m[k]) = key}
        last(S) == CHOOSE k \in S : \A j \in S : j <= k
    IN  [ok  |-> valid,
         obj |-> [key \in Keys |->
                    IF valid /\ at(key) # {}
                    THEN MemberValue(m[last(at(key))])
                    ELSE Undefined]]

\* ------------------------------------------------------------- Solution
Solution(p, a, s, e) ==
    [kind |-> "object", previewText |-> p, answer |-> a, steps |-> s, explanation |-> e]
Null == [kind |-> "null", previewText |-> Undefined, answer |-> Undefined,
         steps |-> Undefined, explanation |-> Undefined]
Thrown == [kind |-> "throw", previewText |-> Undefined, answer |-> Undefined,
           steps |-> Undefined, explanation |-> Undefined]

\* the fallback object of parseResponse
Fallback(text, fallbackPreview) ==
    Solution(Or(JsString(fallbackPreview), JsString(<<"Problem">>)),
             JsString(<<"See explanation below">>),
             JsArray(SelectSeq(Split(text), KeepLine)),
             JsString(text))

\* the object built from a parsed JSON object
FromParsedStepsOr(parsed, text, fallbackPreview) ==
    LET fallback == Fallback(text, fallbackPreview)
    IN  Solution(Or(parsed["previewText"],
                    Or(JsString(fallbackPreview), JsString(<<"Problem">>))),
                 Or(parsed["answer"], fallback.answer),
                 Or(parsed["steps"], fallback.steps),
                 Or(parsed["explanation"], fallback.explanation))
FromParsed(parsed, text, fallbackPreview) ==
    LET fallback == Fallback(text, fallbackPreview)
    IN  Solution(Or(parsed["previewText"],
                    Or(JsString(fallbackPreview), JsString(<<"Problem">>))),
                 Or(parsed["answer"], fallback.answer),
                 IF parsed["steps"].type = "array" THEN parsed["steps"] ELSE fallback.steps,
                 Or(parsed["explanation"], fallback.explanation))

parseResponseNoCatch(text, fallbackPreview) ==
    IF text = <<>> THEN Null
    ELSE LET jsonMatch == RegexMatch(text)
             r == JSONparse(jsonMatch)
         IN  IF jsonMatch = <<>> THEN Fallback(text, fallbackPreview)
             ELSE IF r.ok THEN FromParsed(r.obj, text, fallbackPreview)
             ELSE Thrown
parseResponse(text, fallbackPreview) ==
    IF text = <<>> THEN Null
    ELSE LET jsonMatch == RegexMatch(text)
             r == JSONparse(jsonMatch)
         IN  IF jsonMatch = <<>> THEN Fallback(text, fallbackPreview)
             ELSE IF r.ok THEN FromParsed(r.obj, text, fallbackPreview)
             ELSE Fallback(text, fallbackPreview)   \* catch (err): fall through

\* ------------------------------------------------------- configuration
VISION_MODELS == <<"Qwen/Qwen2.5-VL-7B-Instruct">>
TEXT_LLM == "mistralai/Mistral-7B-Instruct-v0.2"
VISION_TIMEOUT_MS == 20000
TEXT_TIMEOUT_MS == 60000
REQUEST_TIMEOUT_MS == 60000
MAX_IMAGE_SIZE_BYTES == 10 * 1024 * 1024
\* express.json({ limit: '15mb' })
BODY_LIMIT_BYTES == 15 * 1024 * 1024
PLACEHOLDER_KEY == <<"hf_your_key_here">>
\* validateEnv(): process.env.HUGGINGFACE_API_KEY is the value config.hfApiKey
\* is read from
validateEnvAcceptsPlaceholder(key) == Truthy(key)
validateEnv(key) ==
    IF ~Truthy(key) THEN FALSE
    ELSE IF key = JsString(PLACEHOLDER_KEY) THEN FALSE
    ELSE TRUE

\* the canned problem text solveFromImage hands to textOnlySolve
FALLBACK_PROMPT == <<"The user uploaded an image of a math/science problem but the vision models could not process it. ...">>

\* ------------------------------------------------------------- errors
\* An Error's message: its fixed wording and what is interpolated into it.
Msg(t, m, n) == [text |-> t, model |-> m, num |-> n, chars |-> 0]
NoMsg == Msg("", "", 0)
TerminalError ==
    Msg("All AI models are currently unavailable. Please try again in a few minutes.", "", 0)
TimeoutError(model, timeoutMs) ==
    Msg("Request to ${model} timed out (${timeoutMs / 1000}s). Try again.", model, timeoutMs \div 1000)
\* responseText.substring(0, 200).length
SubstringChars(s, n) == IF CharLen(s) < n THEN CharLen(s) ELSE n
UpstreamError(status, responseText) ==
    [Msg("HF API ${response.status}: ${responseText.substring(0, 200)}", "", status)
        EXCEPT !.chars = SubstringChars(responseText, 200)]
NetworkError == Msg("fetch failed", "", 0)
SyntaxError == Msg("Unexpected token in JSON", "", 0)

\* --------------------------------------------------------- chatCompletion
\* What the provider does with one call; "abort" is the call's own timer.
\* content is the text of the first choice of a 2xx body, or the body of a
\* non-2xx response.
Outcome(k, c, st) == [kind |-> k, content |-> c, status |-> st]
Aborted == Outcome("abort", <<>>, 0)

\* the result of chatCompletion: the content, or the error it throws
chatCompletionAbortRethrown(model, outcome, timeoutMs) ==
    CASE outcome.kind = "ok"      -> [ok |-> TRUE, content |-> outcome.content, error |-> NoMsg]
      [] outcome.kind = "http"    -> [ok |-> FALSE, content |-> <<>>,
                                      error |-> UpstreamError(outcome.status, outcome.content)]
      [] outcome.kind = "badjson" -> [ok |-> FALSE, content |-> <<>>, error |-> SyntaxError]
      [] OTHER                    -> [ok |-> FALSE, content |-> <<>>, error |-> NetworkError]
chatCompletion(model, outcome, timeoutMs) ==
    CASE outcome.kind = "ok"      -> [ok |-> TRUE, content |-> outcome.content, error |-> NoMsg]
      [] outcome.kind = "http"    -> [ok |-> FALSE, content |-> <<>>,
                                      error |-> UpstreamError(outcome.status, outcome.content)]
      [] outcome.kind = "badjson" -> [ok |-> FALSE, content |-> <<>>, error |-> SyntaxError]
      [] outcome.kind = "abort"   -> [ok |-> FALSE, content |-> <<>>, error |-> TimeoutError(model, timeoutMs)]
      [] OTHER                    -> [ok |-> FALSE, content |-> <<>>, error |-> NetworkError]

\* --------------------------------------------------------- tryVisionSolve
\* if (content && content.length > 10)
VisionAcceptsGe10(content) == content # <<>> /\ CharLen(content) >= 10
VisionAccepts(content) == content # <<>> /\ CharLen(content) > 10

\* for (const model of VISION_MODELS): the model after the i-th
NextModelRetry(i) == i
NextModel(i) == i + 1

\* --------------------------------------------------------- solveFromImage
\* if (visionResult)
VisionSucceededNever(visionResult) == FALSE
VisionSucceeded(visionResult) == visionResult.kind = "object"

ScriptedSolution ==
    Solution(JsString(<<"Image could not be read">>),
             JsString(<<"Could not read image">>),
             JsArray(<< <<"The AI vision models were unable to process this image.">>,
                        <<"Try taking a clearer, well-lit photo of the problem.">>,
                        <<"Make sure the text/equations are clearly visible.">>,
                        <<"Alternatively, you can type the problem directly.">> >>),
             JsString(<<"The free-tier AI vision models may be temporarily unavailable or the image quality was insufficient. Please try again or use the text input option.">>))

Returns(v) == [kind |-> "return", value |-> v, error |-> NoMsg]
Throws(e) == [kind |-> "throw", value |-> Null, error |-> e]
Pending == [kind |-> "none", value |-> Null, error |-> NoMsg]

\* textOnlySolve(problemText), given the result r of its chatCompletion call
textOnlySolveScripted(r, problemText) ==
    IF r.ok THEN Returns(ScriptedSolution) ELSE Throws(TerminalError)
textOnlySolve(r, problemText) ==
    IF r.ok THEN Returns(parseResponse(r.content, problemText)) ELSE Throws(r.error)

\* the text-fallback stage of solveFromImage, given the result r of the call
FallbackStageNoOverride(r) ==
    LET fallbackResult == textOnlySolve(r, FALLBACK_PROMPT)
    IN  IF fallbackResult.kind = "return" /\ fallbackResult.value.kind = "object"
        THEN Returns(fallbackResult.value)
        ELSE Throws(TerminalError)
FallbackStage(r) ==
    LET fallbackResult == textOnlySolve(r, FALLBACK_PROMPT)
    IN  IF fallbackResult.kind = "return" /\ fallbackResult.value.kind = "object"
        THEN Returns(ScriptedSolution)
        ELSE Throws(TerminalError)

\* ------------------------------------------------------------ responses
Response(st, c, e, j, b) ==
    [headersSent |-> TRUE, status |-> st, code |-> c, error |-> e, json |-> j, body |-> b]
NoResponse ==
    [headersSent |-> FALSE, status |-> 0, code |-> "", error |-> NoMsg, json |-> "none", body |-> Null]
ErrorResponse(st, c, e) == Response(st, c, e, "error", Null)
\* res.json(solution): status 200
SolutionResponse(solution) == Response(200, "", NoMsg, "solution", solution)

\* ------------------------------------------------------------- requests
\* The image field: its type, whether it starts with a data:image/...;base64,
\* header, and the length of what follows the header (for a number: its value).
Image(t, d, n) == [type |-> t, dataUri |-> d, len |-> n]
DATA_URI_HEADER_LEN == 22      \* "data:image/png;base64,"
ImageChars(image) == image.len + (IF image.dataUri THEN DATA_URI_HEADER_LEN ELSE 0)
\* !image
ImageFalsyOnlyAbsent(image) == image.type = "undefined"
ImageFalsy(image) ==
    \/ image.type \in {"undefined", "null"}
    \/ image.type = "number" /\ image.len = 0
    \/ image.type = "string" /\ ImageChars(image) = 0

\* String.prototype.trim
RECURSIVE TrimLeft(_)
TrimLeft(s) == IF s # <<>> /\ Head(s) \in Whitespace THEN TrimLeft(Tail(s)) ELSE s
RECURSIVE TrimRight(_)
TrimRight(s) ==
    IF s # <<>> /\ s[Len(s)] \in Whitespace THEN TrimRight(SubSeq(s, 1, Len(s) - 1)) ELSE s
Trim(s) == TrimRight(TrimLeft(s))

\* !config.hfApiKey || config.hfApiKey === 'hf_your_key_here'
KeyMissing(key) == ~Truthy(key) \/ key = JsString(PLACEHOLDER_KEY)

\* POST /solve up to the call of solveFromImage: the response it returns
\* early with, or NoResponse when the request passes
SolveValidation(key, image) ==
    IF KeyMissing(key)
    THEN ErrorResponse(503, "MISSING_API_KEY",
                       Msg("Server is not configured. The HuggingFace API key is missing.", "", 0))
    ELSE IF ImageFalsy(image)
    THEN ErrorResponse(400, "NO_IMAGE",
                       Msg("No image provided. Please send a base64-encoded image in the \"image\" field.", "", 0))
    ELSE IF image.type # "string"
    THEN ErrorResponse(400, "INVALID_FORMAT",
                       Msg("Invalid image format. Expected a base64 string.", "", 0))
    ELSE IF image.len * 3 > MAX_IMAGE_SIZE_BYTES * 4
    THEN ErrorResponse(413, "IMAGE_TOO_LARGE",
                       Msg("Image too large (${(estimatedSize / 1024 / 1024).toFixed(1)}MB). Maximum is 10MB.", "", 0))
    ELSE NoResponse

\* POST /solve-text up to the call of solveFromText
SolveTextValidation(key, t) ==
    IF KeyMissing(key)
    THEN ErrorResponse(503, "MISSING_API_KEY", Msg("API key not configured", "", 0))
    ELSE IF ~Truthy(t) \/ t.type # "string" \/ Trim(t.str) = <<>>
    THEN ErrorResponse(400, "NO_TEXT", Msg("No problem text provided.", "", 0))
    ELSE NoResponse

\* the catch block of both routes
ProcessingError(e) == ErrorResponse(500, "PROCESSING_ERROR", e)
\* the global error handler
InternalErrorNoBody == Response(500, "", NoMsg, "none", Null)
InternalError == ErrorResponse(500, "INTERNAL_ERROR", Msg("An internal server error occurred.", "", 0))
\* the request-timeout callback
TimeoutResponse ==
    ErrorResponse(408, "TIMEOUT", Msg("Request timed out. Please try again with a smaller image.", "", 0))

\* ----------------------------------------------------------- GET /health
\* new Date().toISOString(): the instant, written as date and time of day
toISOString(ms) == [day |-> ms \div (24 * 60 * 60 * 1000), msOfDay |-> ms % (24 * 60 * 60 * 1000)]

\* !!(config.hfApiKey && config.hfApiKey !== 'hf_your_key_here')
ApiKeyConfiguredAnyString(key) == Truthy(key)
ApiKeyConfigured(key) == Truthy(key) /\ key # JsString(PLACEHOLDER_KEY)

\* the object GET /health passes to res.json, at instant ms since the process
\* started
HealthBodyEchoKey(key, env, ms) ==
    [kind |-> "health", status |-> "ok", timestamp |-> toISOString(ms),
     uptime |-> ms \div 1000, env |-> IF Truthy(key) THEN key.str ELSE env,
     apiKeyConfigured |-> ApiKeyConfigured(key)]
HealthBody(key, env, ms) ==
    [kind |-> "health", status |-> "ok", timestamp |-> toISOString(ms),
     uptime |-> ms \div 1000, env |-> env,
     apiKeyConfigured |-> ApiKeyConfigured(key)]
HealthResponse(key, env, ms) == Response(200, "", NoMsg, "health", HealthBody(key, env, ms))

\* ------------------------------------------- static files, 404 fallback
\* express.static and res.sendFile answer with the file, with 304 when the
\* client's copy is fresh, and express.static with a redirect for a directory
FileResponse == Response(200, "", NoMsg, "file", Null)
NotModifiedResponse == Response(304, "", NoMsg, "none", Null)
RedirectResponse == Response(301, "", NoMsg, "html", Null)
StaticResponse(outcome) ==
    CASE outcome = "fresh"     -> NotModifiedResponse
      [] outcome = "directory" -> RedirectResponse
      [] OTHER                 -> FileResponse

\* req.url.startsWith('/api') || req.headers.accept?.includes('application/json')
LooksLikeApiCall(url, accept) == url.api \/ accept = "application/json"
NotFoundResponse == ErrorResponse(404, "NOT_FOUND", Msg("Endpoint not found", "", 0))

\* the 404 fallback; a failing sendFile passes its error to the global error
\* handler
FallbackResponse(url, accept, outcome) ==
    IF LooksLikeApiCall(url, accept) THEN NotFoundResponse
    ELSE IF outcome = "error" THEN InternalError
    ELSE StaticResponse(outcome)

\* ------------------------------------------------------------ variables
VARIABLES
    text, fallbackPreview, parsePc, parseResult,   \* one call of parseResponse
    hfApiKey,      \* config.hfApiKey
    nodeEnv,       \* config.nodeEnv
    uptimeMs,      \* process.uptime() when the request arrives, in ms
    envValid,      \* const envValid = validateEnv()
    exited,        \* process.exit was called
    exitCode,      \* the code it was called with (-1: none)
    listening,     \* the server accepts new connections
    connections,   \* open connections of the server
    closeCallbacks,\* callbacks given to server.close that wait for 'close'
    forceTimers,   \* due times of the armed forced-exit timers
    shutdownClock, \* ms since the first shutdown began
    handled,       \* process events handled so far
    logged,        \* the last entry written by a process event handler
    req,           \* the request being served
    pc,            \* where the route handler is: idle, vision, text, textOnly, done
    orch,          \* the stage of solveFromImage
    visionIdx,     \* index in VISION_MODELS of the model being tried
    calls,         \* models called so far, in order
    replies,       \* results of the finished chatCompletion calls, in order
    callDeadline,  \* when the timer of the call in flight aborts it (-1: none)
    timers,        \* the armed timers of chatCompletion calls
    solveResult,   \* what solveFromImage / solveFromText returned or threw
    res,           \* the response as written
    writeAttempts, \* times something tried to write the response
    escaped,       \* an error left the route handler
    reqDeadline,   \* when the request-timeout callback is due (-1: not armed)
    reqTimerFired,
    now,           \* ms since the request arrived
    storage,          \* localStorage['logicLensHistory']
    activeViews,      \* the views that carry the class 'active'
    analysis,         \* the calls of startAnalysis that have not returned
    shown,            \* what the result view displays
    historyContainer, \* the rendered history list
    uiNow,            \* Date.now() in the browser
    saved,            \* the items saved since the history was last empty, oldest first
    started,          \* calls of startAnalysis so far
    interval,         \* per call of startAnalysis: its setInterval is armed
    stepIndex,        \* per call of startAnalysis: its stepIndex
    pendingUpdate,    \* per call of startAnalysis: a 200 ms text update is scheduled
    analysisStep      \* components.analysisStep.textContent

parseVars == <<text, fallbackPreview, parsePc, parseResult>>
configVars == <<hfApiKey, nodeEnv, uptimeMs, envValid>>
animVars == <<interval, stepIndex, pendingUpdate, analysisStep>>
uiVars == <<storage, activeViews, analysis, shown, historyContainer, uiNow, saved, started,
            animVars>>
procVars == <<exited, exitCode, listening, connections, closeCallbacks, forceTimers,
              shutdownClock, handled, logged>>
requestVars == <<req, pc, orch, visionIdx, calls, replies, callDeadline, timers,
                 solveResult, res, writeAttempts, escaped, reqDeadline, reqTimerFired, now>>
serverVars == <<configVars, procVars, requestVars>>
vars == <<parseVars, serverVars, uiVars>>

\* ------------------------------------------------- inputs of parseResponse
RECURSIVE SeqsUpTo(_, _)
SeqsUpTo(S, n) ==
    IF n = 0 THEN {<<>>}
    ELSE LET shorter == SeqsUpTo(S, n - 1)
         IN  shorter \cup {Append(s, t) : s \in {q \in shorter : Len(q) = n - 1}, t \in S}

Opt(toks) == {<<>>} \cup {<<t>> : t \in toks}
\* one object: "{", then each member absent, truthy or falsy, then "}"
Objects ==
    {<<"{">> \o p \o a \o s \o e \o <<"}">> :
        p \in Opt({"previewText:p", "previewText:''"}),
        a \in Opt({"answer:a", "answer:''"}),
        s \in Opt({"steps:[s1,s2]", "steps:'s'"}),
        e \in Opt({"explanation:e", "explanation:''"})}

TextInputs ==
    SeqsUpTo(FillerTokens, MaxPlainLen)
    \cup {pre \o o \o post : pre \in SeqsUpTo(FillerTokens, MaxPad),
                             o \in Objects,
                             post \in SeqsUpTo(FillerTokens, MaxPad)}
PreviewInputs == {<<>>, <<"2+2">>}

\* ------------------------------------------------- inputs of the server
KeyInputs ==
    {Undefined, JsString(<<>>), JsString(PLACEHOLDER_KEY),
     JsString(<<"hf_live">>), JsString(<<"hf_other">>)}
\* process.env.NODE_ENV || 'development'
EnvInputs == {<<"development">>, <<"production">>}
\* ms since the process started
UptimeInputs == {1500, 61999}
\* what express.static finds for a GET: a file, a file the client holds a fresh
\* copy of, or a directory named without its trailing slash
StaticOutcomes == {"sent", "fresh", "directory"}
\* what res.sendFile(index.html) does
SendFileOutcomes == {"sent", "fresh", "error"}
\* requests no route matches
Url(route, api) == [route |-> route, api |-> api]
UnroutedUrls == {Url("GET /api/solve", TRUE), Url("GET /solve", FALSE), Url("POST /nope", FALSE)}
\* the Accept header: absent, or one media type
AcceptInputs == {"", "text/html", "application/json"}

\* image lengths around the 10 MiB estimate and the 15 MiB body limit
ImageInputs ==
    {Image("undefined", FALSE, 0), Image("null", FALSE, 0),
     Image("number", FALSE, 0), Image("number", FALSE, 7), Image("string", FALSE, 0),
     Image("string", FALSE, 8), Image("string", TRUE, 8),
     Image("string", TRUE, 13981013), Image("string", TRUE, 13981014),
     Image("string", FALSE, 15728640)}

TextFieldInputs ==
    {Undefined, JsNumber, JsString(<<>>), JsString(<<" ">>),
     JsString(<<"x">>), JsString(<<" ", "x", " ">>)}

TenChars == <<"x", "x", "x", "x", "x", "x", "x", "x", "x", "x">>
\* contents of choices[0].message.content ('' also when there are no choices)
ContentInputs ==
    {<<>>,
     <<"{", "}">>,
     TenChars,
     TenChars \o <<"x">>,
     <<"x", " ", "{", "previewText:p", "answer:a", "steps:[s1,s2]", "explanation:e", "}">>,
     <<"{", "answer:a", "}">>,
     <<"{", "previewText:p", "answer:a", "steps:[s1,s2]", "explanation:e", "}", "}">>}

\* bodies of a non-2xx response: empty, 200 characters, 201 characters
ErrorBodies == {<<>>, <<"200 characters">>, <<"200 characters", "x">>}
FetchOutcomes ==
    {Outcome("ok", c, 200) : c \in ContentInputs}
    \cup {Outcome("http", body, 503) : body \in ErrorBodies}
    \cup {Outcome("badjson", <<>>, 200), Outcome("network", <<>>, 0)}

\* the request body: {"image":"..."} or {"text":"..."}
Request(route, image, t) == [route |-> route, image |-> image, text |-> t]
NoRequest == Request("none", Image("undefined", FALSE, 0), Undefined)
BodyBytes(r) ==
    IF r.route = "POST /solve" /\ r.image.type = "string" THEN 12 + ImageChars(r.image) ELSE 12

\* ============================================ browser UI (src/js/app.js)
Views == {"home", "analyzing", "result", "history", "settings"}
\* data-view of the nav buttons
NavTargets == {"home", "history", "settings"}

\* navigateTo(viewName): the views that carry 'active' afterwards
navigateToKeepsOthers(viewName) ==
    IF viewName \in Views THEN activeViews \cup {viewName} ELSE activeViews
navigateTo(viewName) == IF viewName \in Views THEN {viewName} ELSE {}

\* if (history.length > 50)
HISTORY_LIMIT == 50

\* localStorage.getItem('logicLensHistory'): null, or the string stored
StorageNull == [kind |-> "null", json |-> <<>>]
\* JSON.stringify(history): the serialized list
JSONstringify(history) == [kind |-> "string", json |-> history]
\* JSON.parse(localStorage.getItem('logicLensHistory') || '[]')
StoredHistory(item) == IF item.kind = "null" THEN <<>> ELSE item.json

\* new Date().toLocaleDateString()
toLocaleDateString(ms) == ms \div (24 * 60 * 60 * 1000)
\* { ...solution, date, timestamp }
HistoryItem(solution, ms) ==
    [previewText |-> solution.previewText, answer |-> solution.answer,
     steps |-> solution.steps, explanation |-> solution.explanation,
     date |-> toLocaleDateString(ms), timestamp |-> ms]

\* history.unshift(historyItem)
Unshift(history, historyItem) == <<historyItem>> \o history
\* if (history.length > 50) history.pop()
PopOverLimitDropsNewest(history) ==
    IF Len(history) > HISTORY_LIMIT THEN Tail(history) ELSE history
PopOverLimit(history) ==
    IF Len(history) > HISTORY_LIMIT THEN SubSeq(history, 1, Len(history) - 1) ELSE history

\* a steps list whose elements are not strings: simplifyStep throws on it
JsNumberArray == [type |-> "array-of-numbers", str |-> <<>>, arr |-> <<>>]
\* renderSteps(container, steps) returns (it throws otherwise)
Renderable(steps) == steps.type = "array"

\* what the result view displays
Displayed(data) ==
    [previewText |-> data.previewText, answer |-> data.answer,
     explanation |-> data.explanation,
     steps |-> IF Renderable(data.steps) THEN data.steps ELSE JsArray(<<>>)]
NothingDisplayed ==
    [previewText |-> Undefined, answer |-> Undefined, explanation |-> Undefined,
     steps |-> JsArray(<<>>)]

\* one call of startAnalysis: where it is, the response and the parsed body
Analysis(at, response, data) == [pc |-> at, response |-> response, data |-> data]
\* a settled fetch: response.ok and what response.json() will give
FetchResponse(ok, body, data) == [ok |-> ok, body |-> body, data |-> data]
NoFetchResponse == FetchResponse(FALSE, "none", Null)
NoAnalysis == Analysis("idle", NoFetchResponse, Null)
AnalysisIds == {1, 2}

\* const steps = [...]
steps ==
    << <<"Analyzing the problem...">>, <<"Looking at the details...">>,
       <<"Running AI reasoning...">>, <<"Almost there...">> >>
\* steps[stepIndex % steps.length]
StepText(i) == steps[(i % Len(steps)) + 1]
\* the text of the status line in index.html
STATUS_INITIAL == <<>>
SOLUTION_FOUND == <<"Solution found!">>

\* ------------------------------------------------------- inputs of the UI
UISolutions ==
    {Solution(JsString(<<"2+2">>), JsString(<<"4">>),
              JsArray(<< <<"add">>, <<"done">> >>), JsString(<<"sum">>)),
     Solution(JsString(<<"3*3">>), JsString(<<"9">>), JsNumberArray, JsString(<<"product">>))}
\* 2xx with a solution, non-2xx with an error body, either with a body that is
\* not JSON
UIResponses ==
    {FetchResponse(TRUE, "json", d) : d \in UISolutions}
    \cup {FetchResponse(FALSE, "json", Null),
          FetchResponse(FALSE, "unparsable", Null),
          FetchResponse(TRUE, "unparsable", Null)}
\* the history a page visit finds in localStorage: the k most recent saves
PersistedLens == {0, HISTORY_LIMIT - 1, HISTORY_LIMIT}
PersistedItem(ms) == HistoryItem(Solution(JsString(<<"1+1">>), JsString(<<"2">>),
                                          JsArray(<< <<"add">> >>), JsString(<<"sum">>)), ms)
Persisted(k) == IF k = 0 THEN StorageNull
                ELSE JSONstringify([i \in 1..k |-> PersistedItem(k - i)])
\* positions in the rendered list the user clicks
ClickPositions(n) == {1, n} \cap 1..n

\* ------------------------------------------------------------------ Init
AnimIdle ==
    /\ interval = [id \in AnalysisIds |-> FALSE]
    /\ stepIndex = [id \in AnalysisIds |-> 0]
    /\ pendingUpdate = [id \in AnalysisIds |-> FALSE]
    /\ analysisStep = STATUS_INITIAL

UIIdle ==
    /\ storage = StorageNull
    /\ activeViews = {"home"}
    /\ analysis = [id \in AnalysisIds |-> NoAnalysis]
    /\ shown = NothingDisplayed
    /\ historyContainer = <<>>
    /\ uiNow = 0
    /\ saved = <<>>
    /\ started = 0
    /\ AnimIdle

ParseIdle ==
    /\ text = <<>>
    /\ fallbackPreview = <<>>
    /\ parsePc = "idle"
    /\ parseResult = Null

\* the process after app.listen
ProcessUp ==
    /\ exited = FALSE
    /\ exitCode = -1
    /\ listening = TRUE
    /\ connections = 0
    /\ closeCallbacks = 0
    /\ forceTimers = {}
    /\ shutdownClock = 0
    /\ handled = 0
    /\ logged = "Ready"

ServerIdle ==
    /\ ProcessUp
    /\ req = NoRequest
    /\ pc = "idle"
    /\ orch = "none"
    /\ visionIdx = 0
    /\ calls = <<>>
    /\ replies = <<>>
    /\ callDeadline = -1
    /\ timers = {}
    /\ solveResult = Pending
    /\ res = NoResponse
    /\ writeAttempts = 0
    /\ escaped = FALSE
    /\ reqDeadline = -1
    /\ reqTimerFired = FALSE
    /\ now = 0

Init ==
    /\ ParseIdle
    /\ hfApiKey \in KeyInputs
    /\ nodeEnv \in EnvInputs
    /\ uptimeMs \in UptimeInputs
    /\ envValid = validateEnv(hfApiKey)
    /\ ServerIdle
    /\ UIIdle

ParseInit ==
    /\ text \in TextInputs
    /\ fallbackPreview \in PreviewInputs
    /\ parsePc = "call"
    /\ parseResult = Null
    /\ hfApiKey = Undefined
    /\ nodeEnv = <<"development">>
    /\ uptimeMs = 0
    /\ envValid = validateEnv(hfApiKey)
    /\ ServerIdle
    /\ UIIdle

\* --------------------------------------------------------------- actions
\* one call of parseResponse(text, fallbackPreview)
ParseResponse ==
    /\ parsePc = "call"
    /\ parsePc' = "returned"
    /\ parseResult' = parseResponse(text, fallbackPreview)
    /\ UNCHANGED <<text, fallbackPreview, serverVars, uiVars>>

\* const timeout = setTimeout(() => controller.abort(), timeoutMs), for the
\* k-th call: the timer holds the controller of that call
Timer(k, due) == [call |-> k, due |-> due]
\* finally { clearTimeout(timeout) } of the k-th call
clearTimeoutNever(armed, k) == armed
clearTimeout(armed, k) == {t \in armed : t.call # k}

\* chatCompletion(model, ..., timeoutMs) up to its await fetch(...); a call
\* that follows another starts after the finally block of that one
StartCall(model, timeoutMs) ==
    /\ calls' = Append(calls, model)
    /\ callDeadline' = now + timeoutMs
    /\ timers' = clearTimeout(timers, Len(calls)) \cup {Timer(Len(calls) + 1, now + timeoutMs)}

\* the route's res.json(solution) / res.status(500).json(...): once the
\* headers are sent the write throws, also from the catch block, so the
\* error leaves the handler
RouteResponds(result) ==
    /\ solveResult' = result
    /\ pc' = "done"
    /\ callDeadline' = -1
    /\ timers' = clearTimeout(timers, Len(calls))
    /\ IF res.headersSent
       THEN /\ res' = res
            /\ escaped' = TRUE
            /\ writeAttempts' = writeAttempts + (IF result.kind = "return" THEN 2 ELSE 1)
       ELSE /\ res' = IF result.kind = "return" THEN SolutionResponse(result.value)
                      ELSE ProcessingError(result.error)
            /\ escaped' = escaped
            /\ writeAttempts' = writeAttempts + 1

\* express.json, the timeout middleware, then POST /solve up to its first await
ReceiveSolve(image) ==
    /\ pc = "idle"
    /\ req' = Request("POST /solve", image, Undefined)
    /\ UNCHANGED <<parseVars, uiVars, configVars, procVars, replies, solveResult, escaped, reqTimerFired, now>>
    /\ IF BodyBytes(req') > BODY_LIMIT_BYTES
       THEN \* body-parser passes an error to the global error handler
            /\ res' = InternalError
            /\ writeAttempts' = writeAttempts + 1
            /\ pc' = "done"
            /\ UNCHANGED <<orch, visionIdx, calls, callDeadline, timers, reqDeadline>>
       ELSE /\ reqDeadline' = now + REQUEST_TIMEOUT_MS
            /\ IF SolveValidation(hfApiKey, image).headersSent
               THEN /\ res' = SolveValidation(hfApiKey, image)
                    /\ writeAttempts' = writeAttempts + 1
                    /\ pc' = "done"
                    /\ UNCHANGED <<orch, visionIdx, calls, callDeadline, timers>>
               ELSE \* solveFromImage -> tryVisionSolve -> first model
                    /\ res' = res
                    /\ writeAttempts' = writeAttempts
                    /\ IF Len(VISION_MODELS) >= 1
                       THEN /\ pc' = "vision"
                            /\ orch' = "VisionAttempt"
                            /\ visionIdx' = 1
                            /\ StartCall(VISION_MODELS[1], VISION_TIMEOUT_MS)
                       ELSE /\ pc' = "text"
                            /\ orch' = "TextFallback"
                            /\ visionIdx' = visionIdx
                            /\ StartCall(TEXT_LLM, TEXT_TIMEOUT_MS)

\* express.json, the timeout middleware, then POST /solve-text up to its await
ReceiveSolveTextNoReturn(t) ==
    /\ pc = "idle"
    /\ req' = Request("POST /solve-text", Image("undefined", FALSE, 0), t)
    /\ reqDeadline' = now + REQUEST_TIMEOUT_MS
    /\ UNCHANGED <<parseVars, uiVars, configVars, procVars, replies, solveResult, escaped, reqTimerFired, now,
                   orch, visionIdx>>
    /\ res' = SolveTextValidation(hfApiKey, t)
    /\ writeAttempts' = writeAttempts + (IF SolveTextValidation(hfApiKey, t).headersSent THEN 1 ELSE 0)
    /\ pc' = "textOnly"
    /\ StartCall(TEXT_LLM, TEXT_TIMEOUT_MS)
ReceiveSolveText(t) ==
    /\ pc = "idle"
    /\ req' = Request("POST /solve-text", Image("undefined", FALSE, 0), t)
    /\ reqDeadline' = now + REQUEST_TIMEOUT_MS
    /\ UNCHANGED <<parseVars, uiVars, configVars, procVars, replies, solveResult, escaped, reqTimerFired, now,
                   orch, visionIdx>>
    /\ IF SolveTextValidation(hfApiKey, t).headersSent
       THEN /\ res' = SolveTextValidation(hfApiKey, t)
            /\ writeAttempts' = writeAttempts + 1
            /\ pc' = "done"
            /\ UNCHANGED <<calls, callDeadline, timers>>
       ELSE \* solveFromText(text.trim()) -> textOnlySolve -> chatCompletion
            /\ res' = res
            /\ writeAttempts' = writeAttempts
            /\ pc' = "textOnly"
            /\ StartCall(TEXT_LLM, TEXT_TIMEOUT_MS)

\* what runs when the call in flight ends with `outcome`, up to the next
\* await or the end of the route handler
Continue(outcome) ==
    /\ UNCHANGED <<parseVars, uiVars, configVars, procVars, req, reqDeadline, reqTimerFired, now>>
    /\ IF pc = "vision"
       THEN LET r == chatCompletion(VISION_MODELS[visionIdx], outcome, VISION_TIMEOUT_MS)
                accepted == r.ok /\ VisionAccepts(r.content)
                more == ~accepted /\ NextModel(visionIdx) <= Len(VISION_MODELS)
                \* tryVisionSolve returns parseResponse(content), or null
                visionResult == IF accepted THEN parseResponse(r.content, <<>>) ELSE Null
            IN  /\ replies' = Append(replies, r)
                /\ IF more
                   THEN /\ visionIdx' = NextModel(visionIdx)
                        /\ StartCall(VISION_MODELS[NextModel(visionIdx)], VISION_TIMEOUT_MS)
                        /\ UNCHANGED <<pc, orch, solveResult, res, writeAttempts, escaped>>
                   ELSE IF VisionSucceeded(visionResult)
                   THEN /\ orch' = "Done"
                        /\ RouteResponds(Returns(visionResult))
                        /\ UNCHANGED <<visionIdx, calls>>
                   ELSE /\ orch' = "TextFallback"
                        /\ pc' = "text"
                        /\ StartCall(TEXT_LLM, TEXT_TIMEOUT_MS)
                        /\ UNCHANGED <<visionIdx, solveResult, res, writeAttempts, escaped>>
       ELSE IF pc = "text"
       THEN LET r == chatCompletion(TEXT_LLM, outcome, TEXT_TIMEOUT_MS)
            IN  /\ replies' = Append(replies, r)
                /\ orch' = IF FallbackStage(r).kind = "return" THEN "DoneWithCaveat" ELSE "Fatal"
                /\ RouteResponds(FallbackStage(r))
                /\ UNCHANGED <<visionIdx, calls>>
       ELSE LET r == chatCompletion(TEXT_LLM, outcome, TEXT_TIMEOUT_MS)
            IN  /\ replies' = Append(replies, r)
                /\ RouteResponds(textOnlySolve(r, Trim(req.text.str)))
                /\ UNCHANGED <<orch, visionIdx, calls>>

\* a request that ends in the route or middleware that receives it
AnswerAtOnce(response) ==
    /\ res' = response
    /\ writeAttempts' = writeAttempts + 1
    /\ pc' = "done"
    /\ UNCHANGED <<parseVars, uiVars, configVars, procVars, orch, visionIdx, calls, replies,
                   callDeadline, timers, solveResult, escaped, reqTimerFired, now>>

\* the timeout middleware, then GET /health
ReceiveHealth ==
    /\ pc = "idle"
    /\ req' = Request("GET /health", Image("undefined", FALSE, 0), Undefined)
    /\ reqDeadline' = now + REQUEST_TIMEOUT_MS
    /\ AnswerAtOnce(HealthResponse(hfApiKey, nodeEnv, uptimeMs + now))

\* express.static serves a GET; the timeout middleware is not reached
ReceiveStatic(outcome) ==
    /\ pc = "idle"
    /\ req' = Request("GET /js/app.js", Image("undefined", FALSE, 0), Undefined)
    /\ reqDeadline' = reqDeadline
    /\ AnswerAtOnce(StaticResponse(outcome))

\* the timeout middleware, no route, then the 404 fallback
ReceiveUnrouted(url, accept, outcome) ==
    /\ pc = "idle"
    /\ req' = Request(url.route, Image("undefined", FALSE, 0), Undefined)
    /\ reqDeadline' = now + REQUEST_TIMEOUT_MS
    /\ AnswerAtOnce(FallbackResponse(url, accept, outcome))

InFlight == pc \in {"vision", "text", "textOnly"}
ReqTimerPending == reqDeadline >= 0 /\ ~reqTimerFired

\* the provider answers the call in flight, or the connection fails
FetchSettles(outcome) ==
    /\ InFlight
    /\ Continue(outcome)

\* setTimeout(() => controller.abort(), timeoutMs) fires.  The request timer
\* was armed before any call's timer, so of two timers due it runs first.
\* controller.abort() reaches the fetch that was given this controller's
\* signal, and nothing else.
AbortTimer ==
    \E t \in timers :
       /\ now >= t.due
       /\ ~(ReqTimerPending /\ reqDeadline <= t.due)
       /\ IF InFlight /\ t.call = Len(calls)
          THEN Continue(Aborted)
          ELSE /\ timers' = timers \ {t}
               /\ UNCHANGED <<parseVars, uiVars, configVars, procVars, req, pc, orch, visionIdx, calls,
                              replies, callDeadline, solveResult, res, writeAttempts, escaped,
                              reqDeadline, reqTimerFired, now>>

\* the callback of req.setTimeout(REQUEST_TIMEOUT_MS, ...)
RequestTimeout ==
    /\ ReqTimerPending
    /\ now >= reqDeadline
    /\ reqTimerFired' = TRUE
    /\ IF ~res.headersSent
       THEN res' = TimeoutResponse /\ writeAttempts' = writeAttempts + 1
       ELSE UNCHANGED <<res, writeAttempts>>
    /\ UNCHANGED <<parseVars, uiVars, configVars, procVars, req, pc, orch, visionIdx, calls, replies,
                   callDeadline, timers, solveResult, escaped, reqDeadline, now>>

\* time passes, up to the next timer that is due
Tick ==
    /\ InFlight \/ ReqTimerPending
    /\ \A t \in timers : now < t.due
    /\ ReqTimerPending => now < reqDeadline
    /\ now' = now + VISION_TIMEOUT_MS
    /\ UNCHANGED <<parseVars, uiVars, configVars, procVars, req, pc, orch, visionIdx, calls, replies,
                   callDeadline, timers, solveResult, res, writeAttempts, escaped,
                   reqDeadline, reqTimerFired>>

Next ==
    \/ \E image \in ImageInputs : ReceiveSolve(image)
    \/ \E t \in TextFieldInputs : ReceiveSolveText(t)
    \/ ReceiveHealth
    \/ \E outcome \in StaticOutcomes : ReceiveStatic(outcome)
    \/ \E url \in UnroutedUrls, accept \in AcceptInputs, outcome \in SendFileOutcomes :
          ReceiveUnrouted(url, accept, outcome)
    \/ \E outcome \in FetchOutcomes : FetchSettles(outcome)
    \/ AbortTimer
    \/ RequestTimeout
    \/ Tick

Spec == Init /\ [][Next]_vars

SpecParse == ParseInit /\ [][ParseResponse]_vars

\* ------------------------------------------------- process-level handlers
FORCED_EXIT_MS == 10000
\* the step of the clock while a shutdown is under way
SHUTDOWN_STEP_MS == FORCED_EXIT_MS \div 2

\* gracefulShutdown(signal): server.close(callback), then the forced-exit
\* timer.  server.close stops the server from accepting connections; its
\* callback waits for the 'close' event, also when the server is closing
\* already.
gracefulShutdownNoTimer(signal) ==
    /\ logged' = signal
    /\ listening' = FALSE
    /\ closeCallbacks' = closeCallbacks + 1
    /\ forceTimers' = forceTimers
gracefulShutdown(signal) ==
    /\ logged' = signal
    /\ listening' = FALSE
    /\ closeCallbacks' = closeCallbacks + 1
    /\ forceTimers' = forceTimers \cup {shutdownClock + FORCED_EXIT_MS}

\* process.on('SIGTERM' | 'SIGINT', ...)
Signal(signal) ==
    /\ ~exited
    /\ handled < MaxEvents
    /\ handled' = handled + 1
    /\ gracefulShutdown(signal)
    /\ UNCHANGED <<parseVars, uiVars, configVars, requestVars, exited, exitCode, connections,
                   shutdownClock>>

\* process.on('uncaughtException', ...)
UncaughtException ==
    /\ ~exited
    /\ handled < MaxEvents
    /\ handled' = handled + 1
    /\ gracefulShutdown("uncaughtException")
    /\ UNCHANGED <<parseVars, uiVars, configVars, requestVars, exited, exitCode, connections,
                   shutdownClock>>

\* process.on('unhandledRejection', ...)
UnhandledRejection ==
    /\ ~exited
    /\ handled < MaxEvents
    /\ handled' = handled + 1
    /\ logged' = "Unhandled Promise Rejection"
    /\ UNCHANGED <<parseVars, uiVars, configVars, requestVars, exited, exitCode, listening,
                   connections, closeCallbacks, forceTimers, shutdownClock>>

\* a client connects
ConnectionOpens ==
    /\ ~exited
    /\ listening
    /\ connections < MaxConnections
    /\ connections' = connections + 1
    /\ UNCHANGED <<parseVars, uiVars, configVars, requestVars, exited, exitCode, listening,
                   closeCallbacks, forceTimers, shutdownClock, handled, logged>>

\* a connection ends
ConnectionCloses ==
    /\ ~exited
    /\ connections > 0
    /\ connections' = connections - 1
    /\ UNCHANGED <<parseVars, uiVars, configVars, requestVars, exited, exitCode, listening,
                   closeCallbacks, forceTimers, shutdownClock, handled, logged>>

\* process.exit(code)
Exit(code) ==
    /\ exited' = TRUE
    /\ exitCode' = code
    /\ UNCHANGED <<parseVars, uiVars, configVars, requestVars, listening, connections,
                   closeCallbacks, forceTimers, shutdownClock, handled>>

\* 'close': the server is closed and its last connection has ended; the
\* callback of server.close runs
ServerClosed ==
    /\ ~exited
    /\ ~listening
    /\ connections = 0
    /\ closeCallbacks > 0
    /\ logged' = "Server closed."
    /\ Exit(0)

\* the callback of setTimeout(..., 10_000)
ForcedExit ==
    /\ ~exited
    /\ \E due \in forceTimers : shutdownClock >= due
    /\ logged' = "Forced shutdown after timeout."
    /\ Exit(1)

\* time passes while a shutdown is under way, up to the next timer due
ShutdownTick ==
    /\ ~exited
    /\ forceTimers # {}
    /\ \A due \in forceTimers : shutdownClock < due
    /\ shutdownClock' = shutdownClock + SHUTDOWN_STEP_MS
    /\ UNCHANGED <<parseVars, uiVars, configVars, requestVars, exited, exitCode, listening,
                   connections, closeCallbacks, forceTimers, handled, logged>>

ShutdownNext ==
    \/ \E signal \in {"SIGTERM", "SIGINT"} : Signal(signal)
    \/ UncaughtException
    \/ UnhandledRejection
    \/ ConnectionOpens
    \/ ConnectionCloses
    \/ ServerClosed
    \/ ForcedExit
    \/ ShutdownTick

\* Timers run: the event loop stays alive while a forced-exit timer is armed.
ShutdownInit ==
    /\ ParseIdle
    /\ hfApiKey \in KeyInputs
    /\ nodeEnv \in EnvInputs
    /\ uptimeMs = 0
    /\ envValid = validateEnv(hfApiKey)
    /\ ServerIdle
    /\ UIIdle

SpecShutdown ==
    /\ ShutdownInit
    /\ [][ShutdownNext]_vars
    /\ WF_vars(ShutdownTick)
    /\ WF_vars(ForcedExit)

\* --------------------------------------------------------- UI: page load
UIInit ==
    /\ ParseIdle
    /\ hfApiKey = Undefined
    /\ nodeEnv = <<"development">>
    /\ uptimeMs = 0
    /\ envValid = validateEnv(hfApiKey)
    /\ ServerIdle
    /\ \E k \in PersistedLens :
          /\ storage = Persisted(k)
          /\ saved = [i \in 1..k |-> PersistedItem(i - 1)]
          /\ uiNow = k
    /\ activeViews = {"home"}
    /\ analysis = [id \in AnalysisIds |-> NoAnalysis]
    /\ shown = NothingDisplayed
    /\ historyContainer = <<>>
    /\ started = 0
    /\ AnimIdle

\* ---------------------------------------------------------- UI: handlers
\* saveToHistory(solution)
saveToHistory(solution) ==
    LET historyItem == HistoryItem(solution, uiNow)
        history == PopOverLimit(Unshift(StoredHistory(storage), historyItem))
    IN  /\ storage' = JSONstringify(history)
        /\ saved' = Append(saved, historyItem)
        /\ uiNow' = uiNow + 1

\* renderHistory(), reading the stored item
renderHistory(item) == historyContainer' = StoredHistory(item)

\* loadSolution(data): a throw of renderSteps ends the click handler
loadSolutionSaves(data) ==
    /\ shown' = Displayed(data)
    /\ activeViews' = IF Renderable(data.steps) THEN navigateTo("result") ELSE activeViews
    /\ saveToHistory(data)
loadSolution(data) ==
    /\ shown' = Displayed(data)
    /\ activeViews' = IF Renderable(data.steps) THEN navigateTo("result") ELSE activeViews
    /\ UNCHANGED <<storage, saved, uiNow>>

\* showResult(solutionData) as startAnalysis calls it: a throw of renderSteps
\* is caught by startAnalysis, which goes home
showResult(solutionData) ==
    /\ shown' = Displayed(solutionData)
    /\ saveToHistory(solutionData)
    /\ activeViews' = IF Renderable(solutionData.steps) THEN navigateTo("result")
                      ELSE navigateTo("home")

\* the file input's change handler and the reader's onload: startAnalysis up
\* to its await fetch(...)
Returned(id) == analysis[id].pc = "idle" /\ ~pendingUpdate[id]
StartAnalysis(id) ==
    /\ started < MaxStarts
    /\ Returned(id)
    /\ \A other \in AnalysisIds : other < id => ~Returned(other)
    /\ started' = started + 1
    /\ activeViews' = navigateTo("analyzing")
    /\ analysis' = [analysis EXCEPT ![id] = Analysis("fetch", NoFetchResponse, Null)]
    /\ stepIndex' = [stepIndex EXCEPT ![id] = 0]
    /\ interval' = [interval EXCEPT ![id] = TRUE]
    /\ UNCHANGED <<parseVars, serverVars, storage, shown, historyContainer, uiNow, saved,
                   pendingUpdate, analysisStep>>

\* the callback of setInterval(..., 1200), which schedules the text update.
\* The update of one tick runs 200 ms later, so before the next tick.
IntervalTick(id) ==
    /\ interval[id]
    /\ ~pendingUpdate[id]
    /\ stepIndex[id] < MaxTicks
    /\ pendingUpdate' = [pendingUpdate EXCEPT ![id] = TRUE]
    /\ stepIndex' = [stepIndex EXCEPT ![id] = stepIndex[id] + 1]
    /\ UNCHANGED <<parseVars, serverVars, storage, activeViews, analysis, shown,
                   historyContainer, uiNow, saved, started, interval, analysisStep>>

\* the callback of setTimeout(..., 200) inside the interval callback
StatusUpdate(id) ==
    /\ pendingUpdate[id]
    /\ analysisStep' = StepText(stepIndex[id])
    /\ pendingUpdate' = [pendingUpdate EXCEPT ![id] = FALSE]
    /\ UNCHANGED <<parseVars, serverVars, storage, activeViews, analysis, shown,
                   historyContainer, uiNow, saved, started, interval, stepIndex>>

\* clearInterval(interval)
clearIntervalNever(id) == interval
clearInterval(id) == [interval EXCEPT ![id] = FALSE]

\* fetch rejects: the catch block
FetchRejects(id) ==
    /\ analysis[id].pc = "fetch"
    /\ activeViews' = navigateTo("home")
    /\ analysis' = [analysis EXCEPT ![id] = NoAnalysis]
    /\ interval' = clearInterval(id)
    /\ UNCHANGED <<parseVars, serverVars, storage, shown, historyContainer, uiNow, saved, started,
                   stepIndex, pendingUpdate, analysisStep>>

\* fetch resolves: clearInterval, up to await response.json()
FetchResolves(id, response) ==
    /\ analysis[id].pc = "fetch"
    /\ analysis' = [analysis EXCEPT ![id] = Analysis("json", response, Null)]
    /\ interval' = clearInterval(id)
    /\ UNCHANGED <<parseVars, serverVars, storage, activeViews, shown, historyContainer,
                   uiNow, saved, started, stepIndex, pendingUpdate, analysisStep>>

\* response.json() settles: the catch block, the !response.ok branch, or on
\* to the first wait
JsonSettles(id) ==
    /\ analysis[id].pc = "json"
    /\ IF analysis[id].response.body = "unparsable" \/ ~analysis[id].response.ok
       THEN /\ activeViews' = navigateTo("home")
            /\ analysis' = [analysis EXCEPT ![id] = NoAnalysis]
            /\ interval' = IF analysis[id].response.body = "unparsable"
                           THEN clearInterval(id) ELSE interval
            /\ analysisStep' = analysisStep
       ELSE /\ activeViews' = activeViews
            /\ analysis' = [analysis EXCEPT ![id] =
                              Analysis("eureka", analysis[id].response, analysis[id].response.data)]
            /\ interval' = interval
            /\ analysisStep' = SOLUTION_FOUND
    /\ UNCHANGED <<parseVars, serverVars, storage, shown, historyContainer, uiNow, saved, started,
                   stepIndex, pendingUpdate>>

\* the 2000 ms wait ends; a text update scheduled before the response
\* arrived is due earlier
EurekaTimer(id) ==
    /\ analysis[id].pc = "eureka"
    /\ ~pendingUpdate[id]
    /\ analysis' = [analysis EXCEPT ![id].pc = "ok"]
    /\ UNCHANGED <<parseVars, serverVars, storage, activeViews, shown, historyContainer,
                   uiNow, saved, started, animVars>>

\* the 800 ms wait ends: showResult(data)
OkTimer(id) ==
    /\ analysis[id].pc = "ok"
    /\ showResult(analysis[id].data)
    /\ analysis' = [analysis EXCEPT ![id] = NoAnalysis]
    /\ interval' = IF Renderable(analysis[id].data.steps) THEN interval ELSE clearInterval(id)
    /\ UNCHANGED <<parseVars, serverVars, historyContainer, started,
                   stepIndex, pendingUpdate, analysisStep>>

\* a nav button
NavClick(target) ==
    /\ activeViews' = navigateTo(target)
    /\ IF target = "history" THEN renderHistory(storage) ELSE historyContainer' = historyContainer
    /\ UNCHANGED <<parseVars, serverVars, storage, analysis, shown, uiNow, saved, started,
                   animVars>>

\* the back button
BackToHome ==
    /\ activeViews' = navigateTo("home")
    /\ UNCHANGED <<parseVars, serverVars, storage, analysis, shown, historyContainer,
                   uiNow, saved, started, animVars>>

\* the clear button; confirmed is what confirm(...) returns
ClearHistoryClick(confirmed) ==
    /\ IF confirmed
       THEN /\ storage' = StorageNull
            /\ renderHistory(storage')
            /\ saved' = <<>>
       ELSE UNCHANGED <<storage, historyContainer, saved>>
    /\ UNCHANGED <<parseVars, serverVars, activeViews, analysis, shown, uiNow, started,
                   animVars>>

\* a rendered history item
HistoryItemClick(i) ==
    /\ i \in 1..Len(historyContainer)
    /\ loadSolution(historyContainer[i])
    /\ UNCHANGED <<parseVars, serverVars, analysis, historyContainer, started, animVars>>

UINext ==
    \/ \E id \in AnalysisIds : StartAnalysis(id)
    \/ \E id \in AnalysisIds : FetchRejects(id)
    \/ \E id \in AnalysisIds, response \in UIResponses : FetchResolves(id, response)
    \/ \E id \in AnalysisIds : JsonSettles(id)
    \/ \E id \in AnalysisIds : EurekaTimer(id)
    \/ \E id \in AnalysisIds : OkTimer(id)
    \/ \E target \in NavTargets : NavClick(target)
    \/ BackToHome
    \/ \E confirmed \in BOOLEAN : ClearHistoryClick(confirmed)
    \/ \E i \in ClickPositions(Len(historyContainer)) : HistoryItemClick(i)

SpecUI == UIInit /\ [][UINext]_vars

\* ------------------------------------------ UI: the first visit of the page
\* The callbacks of the status animation touch only the status line, which no
\* handler reads; they are explored on a page that starts with no history.
FirstVisit ==
    /\ UIInit
    /\ storage = StorageNull

AnimNext ==
    \/ UINext
    \/ \E id \in AnalysisIds : IntervalTick(id)
    \/ \E id \in AnalysisIds : StatusUpdate(id)

SpecAnim == FirstVisit /\ [][AnimNext]_vars

\* ================================================= solveFromImage claims
IsSolve == req.route = "POST /solve"
NumVision == Len(VISION_MODELS)
\* a vision reply the loop stops at: content longer than 10 characters
Accepted(r) == r.ok /\ CharLen(r.content) > 10
AllVisionFailed ==
    /\ Len(replies) >= NumVision
    /\ \A k \in 1..NumVision : ~Accepted(replies[k])
TextReplied == IsSolve /\ Len(replies) = NumVision + 1
TextReply == replies[NumVision + 1]
IsPrefix(p, q) == Len(p) <= Len(q) /\ p = SubSeq(q, 1, Len(p))
OrchTransitions ==
    {<<"none", "VisionAttempt">>, <<"VisionAttempt", "Done">>,
     <<"VisionAttempt", "TextFallback">>, <<"TextFallback", "DoneWithCaveat">>,
     <<"TextFallback", "Fatal">>}

\* C1: solveFromImage moves only VisionAttempt -> Done, VisionAttempt ->
\* TextFallback, TextFallback -> Done-with-caveat, TextFallback -> Fatal; the
\* text model is called only after every vision model was attempted and none
\* accepted; no vision model is called once the fallback has started; Fatal
\* is not reached without a text-fallback attempt; the run ends in exactly one
\* of: the vision Solution, the scripted Solution, the terminal error.
C1_Stages ==
    [][ /\ (orch' # orch) => <<orch, orch'>> \in OrchTransitions
        /\ (IsSolve' /\ calls' # calls /\ calls'[Len(calls')] = TEXT_LLM)
             => /\ orch' = "TextFallback"
                /\ SubSeq(calls', 1, NumVision) = VISION_MODELS
                /\ AllVisionFailed'
        /\ (orch \notin {"none", "VisionAttempt"}) => calls' = calls
        /\ (orch' = "Fatal")
             => /\ calls'[Len(calls')] = TEXT_LLM
                /\ Len(replies') = Len(calls')
                /\ solveResult' = Throws(TerminalError)
        /\ (orch' = "Done")
             => /\ solveResult'.kind = "return"
                /\ solveResult'.value.kind = "object"
                /\ TEXT_LLM \notin {calls'[k] : k \in 1..Len(calls')}
        /\ (orch' = "DoneWithCaveat") => solveResult' = Returns(ScriptedSolution)
        /\ (IsSolve' /\ orch' \in {"none", "VisionAttempt", "TextFallback"})
             => solveResult' = Pending
        /\ (IsSolve' /\ pc' = "done" /\ orch' # "none")
             => orch' \in {"Done", "DoneWithCaveat", "Fatal"}
      ]_vars

\* C1 witness: a run that went VisionAttempt -> TextFallback -> Fatal.
C1_Witness ==
    /\ orch = "Fatal"
    /\ calls = VISION_MODELS \o <<TEXT_LLM>>
    /\ solveResult = Throws(TerminalError)

\* C2: the vision models are called one at a time in list order; the first
\* reply longer than 10 characters ends the loop: no later vision model and no
\* text model is called and solveFromImage returns the normalizer's output for
\* that content; a model that fails or replies with 10 characters or fewer is
\* skipped and the next one is tried.
C2_FirstSuccessWins ==
    IsSolve =>
      /\ IsPrefix(calls, VISION_MODELS \o <<TEXT_LLM>>)
      /\ \A k \in 1..Len(replies) :
            k <= NumVision =>
              IF Accepted(replies[k])
              THEN /\ Len(calls) = k
                   /\ orch = "Done"
                   /\ solveResult = Returns(parseResponse(replies[k].content, <<>>))
              ELSE Len(calls) > k

\* C2 witness: the first model's reply was accepted and its JSON returned.
C2_Witness ==
    /\ IsSolve
    /\ Len(replies) = 1
    /\ Accepted(replies[1])
    /\ solveResult.kind = "return"
    /\ solveResult.value.answer = JsString(<<"a">>)
    /\ solveResult.value.previewText = JsString(<<"p">>)

\* C3: one POST /solve calls each configured model at most once, makes at
\* most two outbound calls, and issues a call only when the one before it has
\* completed.
C3_AtMostTwoCalls ==
    IsSolve =>
      /\ Len(calls) <= 2
      /\ \A i, j \in 1..Len(calls) : i # j => calls[i] # calls[j]
      /\ Len(replies) = Len(calls) - (IF InFlight THEN 1 ELSE 0)

\* C3 witness: the vision call timed out and the text call has been answered.
C3_Witness ==
    /\ IsSolve
    /\ Len(calls) = 2
    /\ Len(replies) = 2
    /\ replies[1].error = TimeoutError(VISION_MODELS[1], VISION_TIMEOUT_MS)

\* C4 (as claimed): when every vision model fails and the text-fallback call
\* succeeds, solveFromImage returns the scripted Solution whatever content the
\* fallback model returned.
C4_AnyContent ==
    (TextReplied /\ AllVisionFailed /\ TextReply.ok)
    => solveResult = Returns(ScriptedSolution)

\* C4 (amended): when every vision model fails and the text-fallback call
\* succeeds with non-empty content, solveFromImage returns the scripted
\* Solution whatever that content is.
C4_NonEmptyContent ==
    (TextReplied /\ AllVisionFailed /\ TextReply.ok /\ TextReply.content # <<>>)
    => solveResult = Returns(ScriptedSolution)

\* C4 witness: the fallback model returned a full JSON answer of its own and
\* the scripted Solution was returned instead.
C4_Witness ==
    /\ TextReplied
    /\ AllVisionFailed
    /\ TextReply.ok
    /\ parseResponse(TextReply.content, FALLBACK_PROMPT).answer = JsString(<<"a">>)
    /\ solveResult = Returns(ScriptedSolution)

\* C5 (as claimed): when every vision model fails and the text-fallback call
\* raises an error, solveFromImage raises the terminal error and POST /solve
\* answers 500 PROCESSING_ERROR with that message.
C5_Terminal500 ==
    (TextReplied /\ AllVisionFailed /\ ~TextReply.ok /\ pc = "done")
    => /\ solveResult = Throws(TerminalError)
       /\ res = ProcessingError(TerminalError)

\* C6 (as claimed): every 2xx body of POST /solve and POST /solve-text is a
\* Solution with previewText, answer, steps (a list) and explanation present.
C6_FourFields ==
    (req.route \in {"POST /solve", "POST /solve-text"}
       /\ res.headersSent /\ res.status \in 200..299)
    => /\ res.json = "solution"
       /\ res.body.kind = "object"
       /\ Present(res.body.previewText)
       /\ Present(res.body.answer)
       /\ res.body.steps.type = "array"
       /\ Present(res.body.explanation)

\* ==================================================== parseResponse claims
\* what the claims speak of, stated without the parser's own helpers
HasBraceBlock(t) == \E i, j \in 1..Len(t) : i < j /\ t[i] = "{" /\ t[j] = "}"
LinesOf(t) == Split(t)
IsNonEmptyLine(l) == l # <<>>
IsNonBlankLine(l) == \E k \in 1..Len(l) : l[k] # " " /\ l[k] # NL
PreviewOrProblem(fp) == IF fp # <<>> THEN JsString(fp) ELSE JsString(<<"Problem">>)
SeeBelow == JsString(<<"See explanation below">>)
AllFallback(t, fp) ==
    Solution(PreviewOrProblem(fp), SeeBelow,
             JsArray(SelectSeq(LinesOf(t), IsNonBlankLine)), JsString(t))
\* a well-formed object whose four members are all valid
IsFullObject(m) ==
    /\ Len(m) >= 2
    /\ m[1] = "{"
    /\ m[Len(m)] = "}"
    /\ \A k \in 2..(Len(m) - 1) : m[k] \in MemberTokens \cup Whitespace
    /\ \A key \in Keys : \E k \in 2..(Len(m) - 1) : m[k] \in MemberTokens /\ MemberKey(m[k]) = key
    /\ \A k \in 2..(Len(m) - 1) :
          m[k] \in MemberTokens => m[k] \in {"previewText:p", "answer:a", "steps:[s1,s2]", "explanation:e"}
FullObjectValues ==
    Solution(JsString(<<"p">>), JsString(<<"a">>),
             JsArray(<< <<"s1">>, <<"s2">> >>), JsString(<<"e">>))

\* C7 (as claimed): a text that contains a well-formed object with four valid
\* members, whatever surrounds it, is parsed to exactly those four values.
C7_AnySurroundingText ==
    (parsePc = "returned"
       /\ \E i, j \in 1..Len(text) : i < j /\ IsFullObject(SubSeq(text, i, j)))
    => parseResult = FullObjectValues

\* C8 (as claimed): a non-empty text with no {...} substring gives steps = the
\* non-empty lines of the text in order, explanation = the text, answer =
\* "See explanation below", previewText = the caller's preview or "Problem".
C8_NonEmptyLines ==
    (parsePc = "returned" /\ text # <<>> /\ ~HasBraceBlock(text))
    => parseResult = Solution(PreviewOrProblem(fallbackPreview), SeeBelow,
                              JsArray(SelectSeq(LinesOf(text), IsNonEmptyLine)),
                              JsString(text))

\* C8 (amended): as C8, with steps = the lines of the text that contain at
\* least one non-whitespace character (blank lines are dropped as well).
C8_NonBlankLines ==
    (parsePc = "returned" /\ text # <<>> /\ ~HasBraceBlock(text))
    => parseResult = AllFallback(text, fallbackPreview)

\* C8 witness: a brace-free text of three lines, one of them dropped.
C8_Witness ==
    /\ parsePc = "returned"
    /\ text # <<>>
    /\ ~HasBraceBlock(text)
    /\ Len(LinesOf(text)) = 3
    /\ Len(parseResult.steps.arr) = 2
    /\ fallbackPreview # <<>>

\* C9: parseResponse never raises; a brace block that is not valid JSON
\* degrades to the all-fallback object; the result is null iff the text is
\* empty.
C9_NeverThrows ==
    parsePc = "returned"
    => /\ parseResult.kind # "throw"
       /\ (parseResult.kind = "null") <=> (text = <<>>)
       /\ (HasBraceBlock(text) /\ ~JSONparse(RegexMatch(text)).ok)
            => parseResult = AllFallback(text, fallbackPreview)

\* C9 witness: a text whose brace block is not valid JSON has been parsed.
C9_Witness ==
    /\ parsePc = "returned"
    /\ HasBraceBlock(text)
    /\ ~JSONparse(RegexMatch(text)).ok
    /\ parseResult.kind = "object"
    /\ \E k \in 1..Len(text) : text[k] \in MemberTokens

\* C10 (as claimed): when the extracted object parses, a missing member falls
\* back (steps also when it is not a list, to the non-empty lines), and every
\* member that is present is kept as parsed.
C10_PresentKept ==
    (parsePc = "returned" /\ HasBraceBlock(text) /\ JSONparse(RegexMatch(text)).ok)
    => LET o == JSONparse(RegexMatch(text)).obj
       IN  parseResult =
             Solution(IF Present(o["previewText"]) THEN o["previewText"]
                                                   ELSE PreviewOrProblem(fallbackPreview),
                      IF Present(o["answer"]) THEN o["answer"] ELSE SeeBelow,
                      IF o["steps"].type = "array" THEN o["steps"]
                      ELSE JsArray(SelectSeq(LinesOf(text), IsNonEmptyLine)),
                      IF Present(o["explanation"]) THEN o["explanation"]
                                                   ELSE JsString(text))

\* C10 (amended): when the extracted object parses, each member falls back
\* independently: previewText, answer and explanation when missing or falsy
\* (empty), steps when absent or not a list (to the lines of the raw text that
\* contain a non-whitespace character); every member present with a truthy
\* value (steps: a list) is kept as parsed.
C10_TruthyKept ==
    (parsePc = "returned" /\ HasBraceBlock(text) /\ JSONparse(RegexMatch(text)).ok)
    => LET o == JSONparse(RegexMatch(text)).obj
       IN  parseResult =
             Solution(IF Truthy(o["previewText"]) THEN o["previewText"]
                                                  ELSE PreviewOrProblem(fallbackPreview),
                      IF Truthy(o["answer"]) THEN o["answer"] ELSE SeeBelow,
                      IF o["steps"].type = "array" THEN o["steps"]
                      ELSE JsArray(SelectSeq(LinesOf(text), IsNonBlankLine)),
                      IF Truthy(o["explanation"]) THEN o["explanation"]
                                                  ELSE JsString(text))

\* C10 witness: an object with answer present, previewText missing, steps not
\* a list and explanation empty has been parsed, each member on its own rule.
C10_Witness ==
    /\ parsePc = "returned"
    /\ HasBraceBlock(text)
    /\ JSONparse(RegexMatch(text)).ok
    /\ LET o == JSONparse(RegexMatch(text)).obj
       IN  /\ Truthy(o["answer"])
           /\ ~Present(o["previewText"])
           /\ o["steps"].type = "string"
           /\ Present(o["explanation"]) /\ ~Truthy(o["explanation"])
    /\ parseResult.answer = JsString(<<"a">>)
    /\ parseResult.steps.type = "array"
    /\ parseResult.explanation = JsString(text)

\* ============================================================ route claims
IsSolveText == req.route = "POST /solve-text"
\* a credential is configured: a non-empty string other than the placeholder
Configured(key) == key.type = "string" /\ key.str # <<>> /\ key.str # <<"hf_your_key_here">>
Answered(st, c) == res.headersSent /\ res.status = st /\ res.code = c
\* the image field is missing from the body
ImageAbsent == req.image.type = "undefined"
\* the image field is there with a value JavaScript takes for false
ImageFalsyValue ==
    \/ req.image.type = "null"
    \/ req.image.type = "number" /\ req.image.len = 0
    \/ req.image.type = "string" /\ req.image.len = 0 /\ ~req.image.dataUri

DecodedSizeTimes4 == req.image.len * 3
TenMiB == 10 * 1024 * 1024

\* C12 (as claimed): POST /solve with a base64 string whose decoded size
\* (length after the data-URI header, times 3/4) exceeds 10 MiB is answered 413
\* IMAGE_TOO_LARGE, whatever that size is, and a string of 10 MiB or less is
\* not rejected for its size.
C12_EverySize ==
    (IsSolve /\ Configured(hfApiKey) /\ req.image.type = "string" /\ ~ImageFalsyValue)
    => IF DecodedSizeTimes4 > TenMiB * 4
       THEN Answered(413, "IMAGE_TOO_LARGE")
       ELSE res.code # "IMAGE_TOO_LARGE"

\* the codes of the credential gate and of the input validation
RejectionCodes == {"MISSING_API_KEY", "NO_IMAGE", "INVALID_FORMAT", "IMAGE_TOO_LARGE", "NO_TEXT"}

\* C13: a POST /solve or POST /solve-text answered 503 MISSING_API_KEY or with
\* a 400/413 validation error makes no outbound call and never enters
\* solveFromImage / solveFromText, at the time of the answer or later.
C13_NoCallAfterRejection ==
    ((IsSolve \/ IsSolveText) /\ res.headersSent
       /\ res.status \in {503, 400, 413} /\ res.code \in RejectionCodes)
    => /\ calls = <<>>
       /\ replies = <<>>
       /\ orch = "none"
       /\ solveResult = Pending
       /\ ~InFlight

\* C13 witness: an oversized image was answered 413, the request timer has
\* run out since, and no call was ever made.
C13_Witness ==
    /\ IsSolve
    /\ Answered(413, "IMAGE_TOO_LARGE")
    /\ reqTimerFired
    /\ calls = <<>>

\* the text field is absent, not a string, empty or only whitespace
TextBlank ==
    \/ req.text.type # "string"
    \/ \A k \in 1..Len(req.text.str) : req.text.str[k] \in {" ", NL}

\* C14 (as claimed): POST /solve-text with a configured credential is answered
\* 400 NO_TEXT when text is absent, not a string, empty or whitespace-only;
\* otherwise the trimmed text goes to solveFromText and any error it raises is
\* answered 500 PROCESSING_ERROR.
C14_ErrorsMapTo500 ==
    (IsSolveText /\ Configured(hfApiKey)) =>
      IF TextBlank
      THEN Answered(400, "NO_TEXT") /\ calls = <<>>
      ELSE /\ calls = <<TEXT_LLM>>
           /\ (replies # <<>> /\ replies[1].ok)
                => solveResult = Returns(parseResponse(replies[1].content, Trim(req.text.str)))
           /\ (replies # <<>> /\ ~replies[1].ok)
                => /\ solveResult = Throws(replies[1].error)
                   /\ res = ProcessingError(replies[1].error)

\* C15: solveFromText makes exactly one outbound call, to the text model, and
\* none to a vision model; what it returns or raises is that call's content
\* through parseResponse, or that call's error, with no fallback stage and no
\* scripted Solution.
C15_OneTextCall ==
    IsSolveText =>
      /\ Len(calls) <= 1
      /\ \A k \in 1..Len(calls) :
            calls[k] = TEXT_LLM /\ \A v \in 1..NumVision : calls[k] # VISION_MODELS[v]
      /\ (Configured(hfApiKey) /\ ~TextBlank) => Len(calls) = 1
      /\ orch = "none"
      /\ Len(replies) <= 1
      /\ IF replies = <<>> THEN solveResult = Pending
         ELSE IF replies[1].ok
         THEN /\ solveResult = Returns(parseResponse(replies[1].content, Trim(req.text.str)))
              /\ solveResult # Returns(ScriptedSolution)
         ELSE /\ solveResult = Throws(replies[1].error)
              /\ solveResult # Throws(TerminalError)

\* C15 witness: solveFromText returned the text model's own JSON answer after
\* one call.
C15_Witness ==
    /\ IsSolveText
    /\ pc = "done"
    /\ calls = <<TEXT_LLM>>
    /\ Len(replies) = 1
    /\ replies[1].ok
    /\ solveResult.kind = "return"
    /\ solveResult.value.answer = JsString(<<"a">>)

\* =========================================================== /health claims
IsHealth == req.route = "GET /health"

\* C16: GET /health is answered 200 with status "ok" whatever the credential
\* is; apiKeyConfigured is false when the credential is undefined, empty or
\* the placeholder, and true for every other value.
C16_HealthAlwaysOk ==
    IsHealth =>
      /\ res.headersSent
      /\ res.status = 200
      /\ res.json = "health"
      /\ res.body.status = "ok"
      /\ res.body.apiKeyConfigured <=> Configured(hfApiKey)

\* C16 witness: with the placeholder as credential /health answered 200, "ok",
\* apiKeyConfigured false.
C16_Witness ==
    /\ IsHealth
    /\ hfApiKey = JsString(<<"hf_your_key_here">>)
    /\ res.status = 200
    /\ res.body.status = "ok"
    /\ ~res.body.apiKeyConfigured

\* C17: the /health body has no member that holds the credential, and it is
\* the body any other credential with the same apiKeyConfigured would have
\* given for the same environment name and instant: two configured
\* credentials cannot be told apart from it.
C17_HealthHidesKey ==
    IsHealth =>
      /\ DOMAIN res.body = {"kind", "status", "timestamp", "uptime", "env", "apiKeyConfigured"}
      /\ Configured(hfApiKey) => res.body.env # hfApiKey.str /\ <<res.body.status>> # hfApiKey.str
      /\ \A other \in KeyInputs :
            (Configured(other) <=> Configured(hfApiKey))
            => res.body = HealthBody(other, nodeEnv, uptimeMs)

\* C17 witness: /health answered under one configured credential while another
\* configured credential exists to compare with.
C17_Witness ==
    /\ IsHealth
    /\ hfApiKey = JsString(<<"hf_other">>)
    /\ res.body.apiKeyConfigured
    /\ \E other \in KeyInputs : other # hfApiKey /\ Configured(other)

\* =========================================================== history claims
\* the persisted list, as a reader of localStorage sees it
PersistedList == IF storage.kind = "null" THEN <<>> ELSE storage.json
Min(a, b) == IF a <= b THEN a ELSE b

\* C18: with n the number of saveToHistory calls since the history was empty,
\* whatever other UI events came between them, the persisted list holds
\* exactly the min(n, 50) most recently saved items, newest first: it is
\* never longer than 50, the last save is at index 0, the oldest item is the
\* one evicted and no save is lost.
C18_NewestFiftyKept ==
    LET n == Len(saved)
        m == Min(n, 50)
    IN  /\ Len(PersistedList) = m
        /\ Len(PersistedList) <= 50
        /\ \A i \in 1..m : PersistedList[i] = saved[n + 1 - i]

\* C18 witness: the 51st save has been made; the list has 50 entries, the
\* 51st save first and the 2nd save last.
C18_Witness ==
    /\ Len(saved) = 51
    /\ Len(PersistedList) = 50
    /\ PersistedList[1] = saved[51]
    /\ PersistedList[50] = saved[2]
    /\ started >= 1

\* C19: the persisted history changes only when a newly returned solution is
\* shown (its item is put in front of the old list) and when a clear is
\* confirmed (the list is removed); navigation, rendering the history, opening
\* a history item, a cancelled clear and a solve that fails leave it as it was.
C19_OnlySaveAndClear ==
    [][ /\ (storage' # storage) =>
             \/ /\ ClearHistoryClick(TRUE)
                /\ storage'.kind = "null"
             \/ \E id \in AnalysisIds :
                   /\ analysis[id].pc = "ok"
                   /\ analysis[id].response.ok
                   /\ analysis'[id].pc = "idle"
                   /\ shown' = Displayed(analysis[id].data)
                   /\ storage'.kind = "string"
                   /\ Head(storage'.json) = HistoryItem(analysis[id].data, uiNow)
                   /\ Tail(storage'.json)
                        = SubSeq(PersistedList, 1, Min(Len(PersistedList), 49))
        /\ ( \/ \E target \in NavTargets : NavClick(target)
             \/ BackToHome
             \/ \E i \in 1..Len(historyContainer) : HistoryItemClick(i)
             \/ ClearHistoryClick(FALSE)
             \/ \E id \in AnalysisIds : FetchRejects(id)
             \/ \E id \in AnalysisIds :
                   JsonSettles(id) /\ (~analysis[id].response.ok
                                          \/ analysis[id].response.body = "unparsable") )
           => storage' = storage
      ]_vars

\* C19 witness: a stored item has been opened from the history view with
\* loadSolution, and the stored list is the one the page found.
C19_Witness ==
    /\ shown.previewText = JsString(<<"1+1">>)
    /\ activeViews = {"result"}
    /\ historyContainer # <<>>
    /\ storage = Persisted(HISTORY_LIMIT - 1)
    /\ started = 0

\* ====================================================== error-body claims
StatusOfCode ==
    [MISSING_API_KEY |-> 503, NO_IMAGE |-> 400, INVALID_FORMAT |-> 400,
     IMAGE_TOO_LARGE |-> 413, NO_TEXT |-> 400, PROCESSING_ERROR |-> 500,
     TIMEOUT |-> 408, NOT_FOUND |-> 404, INTERNAL_ERROR |-> 500]
\* a JSON body { error: string, code: string } with a listed code and the
\* status that goes with it
HasErrorBody ==
    /\ res.json = "error"
    /\ res.error.text # ""
    /\ res.code \in DOMAIN StatusOfCode
    /\ res.status = StatusOfCode[res.code]

\* C20 (as claimed): every response that is not 2xx has a JSON body with an
\* error string and a code string, the code one of the nine listed, each with
\* its fixed status.
C20_EveryNon2xx ==
    (res.headersSent /\ res.status \notin 200..299) => HasErrorBody

\* C20 (amended): every response with an error status (4xx or 5xx) has such a
\* body; the 304 and 301 responses of the static-file middleware and of
\* sendFile are not errors and carry none.
C20_EveryErrorStatus ==
    (res.headersSent /\ res.status >= 400) => HasErrorBody

\* C20 witness: a request no route matches, asking for JSON, was answered 404
\* NOT_FOUND with an error body.
C20_Witness ==
    /\ req.route = "POST /nope"
    /\ Answered(404, "NOT_FOUND")
    /\ HasErrorBody

\* ============================================================== view claims
\* C21: whatever handlers have run, at most one of the five views carries
\* 'active', and a handler that calls navigateTo(v) with v one of the five
\* views leaves exactly v active: 'analyzing' after startAnalysis begins,
\* 'home' after the back button and after a failed analysis, the button's
\* view after a nav button, 'result' after showResult or loadSolution
\* rendered a solution.
C21_OneActiveView ==
    /\ [](activeViews \subseteq Views /\ Cardinality(activeViews) <= 1)
    /\ [][/\ \A id \in AnalysisIds :
               /\ StartAnalysis(id) => activeViews' = {"analyzing"}
               /\ FetchRejects(id) => activeViews' = {"home"}
               /\ (JsonSettles(id) /\ analysis'[id].pc = "idle") => activeViews' = {"home"}
               /\ (OkTimer(id) /\ Renderable(analysis[id].data.steps))
                     => activeViews' = {"result"}
          /\ \A target \in NavTargets : NavClick(target) => activeViews' = {target}
          /\ BackToHome => activeViews' = {"home"}
          /\ \A i \in 1..Len(historyContainer) :
               (HistoryItemClick(i) /\ Renderable(historyContainer[i].steps))
                  => activeViews' = {"result"}]_vars
\* a solution is on display after the page went through 'analyzing'
C21_Witness ==
    /\ activeViews = {"result"}
    /\ shown.answer = JsString(<<"4">>)
    /\ Len(saved) = 1

\* ========================================================== analysis claims
\* the network call of this startAnalysis has settled and the call goes on
Settled(id) == analysis[id].pc \in {"json", "eureka", "ok"}
Outstanding == {id \in AnalysisIds : analysis[id].pc = "fetch"}

\* C22: the status interval of a startAnalysis call is armed only while its
\* fetch is outstanding: once the fetch has resolved (2xx or not, body
\* parsable or not) or rejected, the interval is cancelled, it stays
\* cancelled, and its callback does not run again.
C22_IntervalCancelled ==
    /\ [](\A id \in AnalysisIds : interval[id] => analysis[id].pc = "fetch")
    /\ [][\A id \in AnalysisIds : IntervalTick(id) => analysis[id].pc = "fetch"]_vars
\* a call whose interval ticked while it waited, and whose fetch then settled
C22_Witness ==
    \E id \in AnalysisIds :
        /\ stepIndex[id] >= 1
        /\ Settled(id)
        /\ ~interval[id]

\* C23: at most one fetch of startAnalysis is outstanding at any time.
C23_SingleOutstanding == Cardinality(Outstanding) <= 1

\* C24: when a call of startAnalysis ends, the view it leaves is the one its
\* response calls for: a 2xx response with a parsable body ends in 'result',
\* showing that response's solution, saved once; a rejected fetch, an
\* unparsable body or a non-2xx response ends in 'home'.
C24_SettledLeavesAnalyzing ==
    [][\A id \in AnalysisIds :
          /\ OkTimer(id) =>
                /\ activeViews' = {"result"}
                /\ shown' = Displayed(analysis[id].data)
                /\ saved' = Append(saved, HistoryItem(analysis[id].data, uiNow))
          /\ (FetchRejects(id) \/ (JsonSettles(id) /\ analysis'[id].pc = "idle"))
                => activeViews' = {"home"}]_vars

\* C30: once a call of startAnalysis has set 'Solution found!', no text
\* update scheduled by that call's interval runs any more.
C30_SolutionFoundStays ==
    [][\A id \in AnalysisIds : StatusUpdate(id) => analysis[id].pc # "eureka"]_vars

\* ====================================================== chatCompletion claims
\* the reply of the call that ends in this step, its model and its timeout
EndingReply == replies'[Len(replies')]
EndingModel == calls[Len(calls)]
EndingTimeout == IF pc = "vision" THEN VISION_TIMEOUT_MS ELSE TEXT_TIMEOUT_MS
TimeoutText == TimeoutError("", 0).text
UpstreamText == UpstreamError(0, <<>>).text
\* what follows a failed call: the next model or the text fallback is called
\* after a vision attempt, the Fatal stage follows the text fallback, and in
\* solveFromText the error goes to the route
MovesOn ==
    CASE pc = "vision" -> /\ Len(calls') = Len(calls) + 1
                          /\ calls'[Len(calls')] \in {VISION_MODELS[i] : i \in (visionIdx + 1)..Len(VISION_MODELS)}
                                                     \cup {TEXT_LLM}
      [] pc = "text"   -> orch' = "Fatal" /\ solveResult' = Throws(TerminalError)
      [] OTHER         -> solveResult' = Throws(EndingReply.error)

\* C25 as stated: a finished chatCompletion call returned the content of a
\* 2xx response, or failed with the timeout error or the upstream error.
C25_ThreeOutcomes ==
    \A k \in 1..Len(replies) :
        replies[k].ok \/ replies[k].error.text \in {TimeoutText, UpstreamText}

\* C25: chatCompletion ends in one of five ways, told apart by the message:
\* a 2xx response with a JSON body returns the content of the first choice;
\* a 2xx response whose body is not JSON throws the parser's SyntaxError; a
\* non-2xx response throws the upstream error with the status and the first
\* 200 characters of the body at most; an abort by the call's timer throws
\* the timeout error naming the model and the duration in seconds; a failed
\* connection throws fetch's own error.  After each of the four failures
\* solveFromImage goes on to the next model or stage, and solveFromText
\* passes the error to its route.
C25_FiveOutcomes ==
    [][/\ \A outcome \in FetchOutcomes :
            FetchSettles(outcome) =>
               /\ CASE outcome.kind = "ok" ->
                         EndingReply.ok /\ EndingReply.content = outcome.content
                    [] outcome.kind = "http" ->
                         /\ ~EndingReply.ok
                         /\ EndingReply.error.text = UpstreamText
                         /\ EndingReply.error.num = outcome.status
                         /\ EndingReply.error.chars <= 200
                         /\ EndingReply.error.chars <= CharLen(outcome.content)
                         /\ EndingReply.error.chars \in {200, CharLen(outcome.content)}
                    [] outcome.kind = "badjson" ->
                         ~EndingReply.ok /\ EndingReply.error = SyntaxError
                    [] OTHER ->
                         ~EndingReply.ok /\ EndingReply.error = NetworkError
               /\ ~EndingReply.ok => MovesOn
       /\ (AbortTimer /\ replies' # replies) =>
               /\ ~EndingReply.ok
               /\ EndingReply.error.text = TimeoutText
               /\ EndingReply.error.model = EndingModel
               /\ EndingReply.error.num * 1000 = EndingTimeout
               /\ MovesOn
       /\ Cardinality({TimeoutText, UpstreamText, SyntaxError.text, NetworkError.text}) = 4]_vars
\* a request whose vision call was cut off by its timer and whose text call
\* was answered with a long error page
C25_Witness ==
    /\ Len(replies) = 2
    /\ replies[1].error = TimeoutError(VISION_MODELS[1], VISION_TIMEOUT_MS)
    /\ replies[2].error = UpstreamError(503, <<"200 characters", "x">>)
    /\ replies[2].error.chars = 200
    /\ orch = "Fatal"

\* C26: every armed abort timer is the timer of the call in flight, armed
\* when that call began with that call's timeout: the timer of a call that
\* has ended, by success, upstream error, other failure or abort, is no
\* longer armed, so a call is aborted by its own timer only and not before
\* its own timeout has passed.
CallTimeout(k) == IF calls[k] = TEXT_LLM THEN TEXT_TIMEOUT_MS ELSE VISION_TIMEOUT_MS
C28_ExactlyOneResponse ==
    IsSolve => /\ writeAttempts <= 1
               /\ ~escaped
               /\ pc = "done" => writeAttempts = 1

\* ========================================================= credential claims
\* the request reached its route: the body parser let it through
ReachedRoute == res.headersSent /\ BodyBytes(req) <= BODY_LIMIT_BYTES
\* C29: for every value of the credential the three judgments agree: /health
\* says apiKeyConfigured exactly when validateEnv returned true at start-up,
\* and that is exactly when POST /solve and POST /solve-text, for a request
\* that reaches the route, answer something other than 503 MISSING_API_KEY.
C29_JudgmentsAgree ==
    /\ (IsHealth /\ res.headersSent) => (res.body.apiKeyConfigured <=> envValid)
    /\ ((IsSolve \/ IsSolveText) /\ ReachedRoute)
          => (~Answered(503, "MISSING_API_KEY") <=> envValid)
    /\ envValid <=> ApiKeyConfigured(hfApiKey)
    /\ envValid <=> ~KeyMissing(hfApiKey)
\* the placeholder credential: /solve answers 503 and start-up found it invalid
C29_Witness ==
    /\ hfApiKey = JsString(PLACEHOLDER_KEY)
    /\ IsSolve
    /\ Answered(503, "MISSING_API_KEY")
    /\ ~envValid

\* ============================================================ shutdown claims
ShutdownBegun == closeCallbacks > 0
\* C27: once SIGTERM, SIGINT or an uncaught exception has been handled the
\* process exits: with code 0, logged 'Server closed.', only when the server
\* has stopped accepting and its last connection has ended, or with code 1
\* when 10 seconds have passed since a shutdown began; it never exits
\* otherwise.  Each of the three events stops the server from accepting
\* connections.  An unhandled rejection is logged and changes nothing else:
\* it neither begins a shutdown nor ends the process.
C27_ShutdownExits ==
    /\ ShutdownBegun ~> exited
    /\ [](/\ exited => /\ ShutdownBegun
                       /\ exitCode \in {0, 1}
                       /\ exitCode = 0 => ~listening /\ connections = 0
                       /\ exitCode = 1 => shutdownClock >= FORCED_EXIT_MS
          /\ ShutdownBegun => ~listening /\ forceTimers # {}
          /\ ~ShutdownBegun => ~exited /\ listening /\ forceTimers = {})
    /\ [][UnhandledRejection =>
             UNCHANGED <<exited, exitCode, listening, connections, closeCallbacks,
                         forceTimers>>]_vars
\* the process was told to stop while a connection stayed open, and was
\* ended by the forced-exit timer
C27_Witness ==
    /\ exited
    /\ exitCode = 1
    /\ connections > 0
    /\ logged = "Forced shutdown after timeout."

====
